---- MODULE Spec2Model ----
(***************************************************************************)
(* Model of the alm-agent dispatch engine (AIProcessor.processMessage),    *)
(* its skill classifier and text hygiene, and the agent registry it        *)
(* records task outcomes in.                                               *)
(*                                                                         *)
(* Text is a sequence of characters.  An ASCII character is the one-       *)
(* character string holding it; a Cyrillic letter is named by its code     *)
(* point, "u0431" for U+0431.                                              *)
(***************************************************************************)
EXTENDS Integers, Sequences, FiniteSets, Bags, TLC

VARIABLES
    config,      \* AIProcessor.config after the constructor
    registry,    \* the local agent's record in the registry
    pc,          \* where the processMessage call stands
    message,     \* argument of the call
    history,     \* argument of the call (Undefined when omitted)
    result,      \* what handleCommand resolved to
    recState,    \* the recordTask call: "none", "pending", "settled", "threw"
    recFate,     \* whether the pending recordTask promise ever settles
    recArgs,     \* arguments recordTask was invoked with
    submitted,   \* messages[] handed to generateChat
    calls,       \* collaborator invocations made by this call
    response,    \* what the call returned
    agents,      \* AgentRegistry: the stored profiles, by id
    heap,        \* the capability objects, by the profile that holds them
    profile,     \* AgentProfileManager.profile: an id of agents, 0 for null
    initPending, \* initialize calls awaiting registerAgent
    returned,    \* the ids initialize has returned, in order
    inflight,    \* recordTask calls made and not yet applied
    log,         \* the task outcomes applied, in order
    ops,         \* the mutator calls made on the profile manager
    now,         \* the clock
    env,         \* the environment loadConfig reads
    appHandler,  \* the cached request handler: TRUE when set, FALSE for null
    initPromise, \* the cached promise: the initApp run it belongs to, 0 for null
    runs,        \* the initApp runs started, in order
    requests,    \* the handler invocations, in order of arrival
    microtasks   \* the promise jobs queued, first in first out

\* the state of the processor and of one processMessage call
procVars == <<config, registry, pc, message, history, result, recState, recFate,
              recArgs, submitted, calls, response>>

\* the state of the registry and of the profile manager
regVars == <<agents, heap, profile, initPending, returned, inflight, log, ops, now>>

\* the state of the serverless entry point
srvVars == <<env, appHandler, initPromise, runs, requests, microtasks>>

vars == <<procVars, regVars, srvVars>>

-----------------------------------------------------------------------------
(* Bounds of the model *)

\* longest history passed to processMessage
MaxHist == 11
\* task recordings applied to the registry before the model stops calling
MaxTasks == 2
\* a configured maxInputLength small enough for the messages of the model
SmallMaxInput == 6
\* length of the long message of the model beyond the truncation length
LongExtra == 3

\* registrations made through initialize
MaxAgents == 2
\* mutator calls made on the profile manager
MaxOps == 4
\* recordTask calls made on the registry
MaxRecords == 3
\* invocations of the serverless handler
MaxRequests == 5

-----------------------------------------------------------------------------
(* Program constants *)

\* constructor default of maxInputLength
DefaultMaxInputLength == 2000
\* message.substring(0, 80)
DescriptionLength == 80
\* (history || []).slice(-10)
HistoryWindow == 10

-----------------------------------------------------------------------------
(* Text *)

Chars(s) == [i \in 1..Len(s) |-> SubSeq(s, i, i)]

Min(a, b) == IF a < b THEN a ELSE b
Max(a, b) == IF a > b THEN a ELSE b

Repeat(c, n) == [i \in 1..n |-> c]

\* String.prototype.includes
Includes(s, k) ==
    \E i \in 1..(Len(s) - Len(k) + 1) : SubSeq(s, i, i + Len(k) - 1) = k

\* String.prototype.substring(0, n)
Substring0(s, n) == SubSeq(s, 1, Min(n, Len(s)))

AsciiUpper == Chars("ABCDEFGHIJKLMNOPQRSTUVWXYZ")
AsciiLower == Chars("abcdefghijklmnopqrstuvwxyz")
Digits == Chars("0123456789")

\* Cyrillic letters of the keyword lists: b a l n s k o sh e yo t r z ts i ya u soft-sign
CyrLower == <<"u0431", "u0430", "u043b", "u043d", "u0441", "u043a", "u043e",
              "u0448", "u0435", "u0451", "u0442", "u0440", "u0437", "u0446",
              "u0438", "u044f", "u0443", "u044c">>
CyrUpper == <<"u0411", "u0410", "u041b", "u041d", "u0421", "u041a", "u041e",
              "u0428", "u0415", "u0401", "u0422", "u0420", "u0417", "u0426",
              "u0418", "u042f", "u0423", "u042c">>

Range(s) == {s[i] : i \in 1..Len(s)}

IndexOf(s, c) == CHOOSE i \in 1..Len(s) : s[i] = c

\* the lower-case letter of every upper-case letter of the alphabet
LowerOf ==
    [c \in Range(AsciiUpper) \cup Range(CyrUpper) |->
        IF c \in Range(AsciiUpper) THEN AsciiLower[IndexOf(AsciiUpper, c)]
        ELSE CyrLower[IndexOf(CyrUpper, c)]]

LowerChar(c) == IF c \in DOMAIN LowerOf THEN LowerOf[c] ELSE c

\* String.prototype.toLowerCase
toLowerCase(s) == [i \in 1..Len(s) |-> LowerChar(s[i])]

\* \s of the regular expressions, and what trim() removes
Whitespace == {" ", "\t", "\n", "\r"}
IsSpace(c) == c \in Whitespace

\* the class [\w\s\p{L}\p{N}?!.,;:()\-] kept by cleanInput
KeptPunctuation == Chars("?!.,;:()-")
KeptChars ==
    Range(AsciiUpper) \cup Range(AsciiLower) \cup Range(Digits) \cup {"_"}
    \cup Whitespace
    \cup Range(CyrLower) \cup Range(CyrUpper)
    \cup Range(KeptPunctuation)
IsKept(c) == c \in KeptChars

\* String.prototype.trim
trim(s) ==
    LET solid == {i \in 1..Len(s) : ~IsSpace(s[i])}
    IN  IF solid = {} THEN <<>>
        ELSE SubSeq(s, CHOOSE i \in solid : \A j \in solid : i <= j,
                       CHOOSE i \in solid : \A j \in solid : i >= j)

\* replace(/\s+/g, ' '): of a run of whitespace, the first character is
\* kept, as a space
CollapseSpaces(s) ==
    LET marked == [i \in 1..Len(s) |->
                      [char |-> IF IsSpace(s[i]) THEN " " ELSE s[i],
                       inRun |-> i > 1 /\ IsSpace(s[i]) /\ IsSpace(s[i - 1])]]
        first(m) == ~m.inRun
        kept == SelectSeq(marked, first)
    IN  [i \in 1..Len(kept) |-> kept[i].char]

\* replace(/[^\w\s\p{L}\p{N}?!.,;:()\-]/gu, '')
StripDisallowed(s) == SelectSeq(s, IsKept)

cleanInput(text) == StripDisallowed(CollapseSpaces(trim(text)))

-----------------------------------------------------------------------------
(* detectSkillName *)

KwBalans    == <<"u0431", "u0430", "u043b", "u0430", "u043d", "u0441">>
KwKoshelek  == <<"u043a", "u043e", "u0448", "u0435", "u043b", "u0435", "u043a">>
KwKoshelyok == <<"u043a", "u043e", "u0448", "u0435", "u043b", "u0451", "u043a">>
KwTranzakts == <<"u0442", "u0440", "u0430", "u043d", "u0437", "u0430", "u043a", "u0446">>
KwIstoriya  == <<"u0438", "u0441", "u0442", "u043e", "u0440", "u0438", "u044f">>
KwTsen      == <<"u0446", "u0435", "u043d">>
KwKurs      == <<"u043a", "u0443", "u0440", "u0441">>
KwSet       == <<"u0441", "u0435", "u0442", "u044c">>
KwStatus    == <<"u0441", "u0442", "u0430", "u0442", "u0443", "u0441">>

BalanceKeywords ==
    {KwBalans, Chars("balance"), Chars("wallet"), KwKoshelek, KwKoshelyok}
TransactionKeywords == {KwTranzakts, Chars("transaction"), KwIstoriya}
PriceKeywords == {KwTsen, Chars("price"), KwKurs}
NetworkKeywords ==
    {KwSet, Chars("network"), KwStatus, Chars("status"), Chars("slot")}

IncludesAny(s, keywords) == \E k \in keywords : Includes(s, k)

\* a variant that tests the price rule before the balance rule
detectSkillNamePriceFirst(msg) ==
    LET lower == toLowerCase(msg)
    IN  IF IncludesAny(lower, PriceKeywords) THEN "Price Monitor"
        ELSE IF IncludesAny(lower, BalanceKeywords) THEN "Balance Checker"
        ELSE IF IncludesAny(lower, TransactionKeywords) THEN "Transaction Analyzer"
        ELSE IF IncludesAny(lower, NetworkKeywords) THEN "Network Status"
        ELSE ""

detectSkillName(msg) ==
    LET lower == toLowerCase(msg)
    IN  IF IncludesAny(lower, BalanceKeywords) THEN "Balance Checker"
        ELSE IF IncludesAny(lower, TransactionKeywords) THEN "Transaction Analyzer"
        ELSE IF IncludesAny(lower, PriceKeywords) THEN "Price Monitor"
        ELSE IF IncludesAny(lower, NetworkKeywords) THEN "Network Status"
        ELSE ""

\* replace(/\n{3,}/g, '\n\n'): of a run of three or more newlines, the
\* first two are kept
CollapseNewlines(s) ==
    LET n == Len(s)
        IsNl(i) == s[i] = "\n"
        runStart(i) == Max(0, CHOOSE j \in 0..(i - 1) :
                                 /\ j = 0 \/ ~IsNl(j)
                                 /\ \A k \in (j + 1)..(i - 1) : IsNl(k)) + 1
        runEnd(i) == (CHOOSE j \in (i + 1)..(n + 1) :
                         /\ j = n + 1 \/ ~IsNl(j)
                         /\ \A k \in (i + 1)..(j - 1) : IsNl(k)) - 1
        marked == [i \in 1..n |->
                      [char |-> s[i],
                       dropped |-> /\ IsNl(i)
                                   /\ runEnd(i) - runStart(i) + 1 >= 3
                                   /\ i - runStart(i) >= 2]]
        stays(m) == ~m.dropped
        kept == SelectSeq(marked, stays)
    IN  [i \in 1..Len(kept) |-> kept[i].char]

cleanOutput(text) == CollapseNewlines(trim(text))

-----------------------------------------------------------------------------
(* Inputs of the model *)

MsgEmpty       == <<>>
MsgBlank       == <<" ", "\t", " ">>
MsgBalance     == Chars("balance")
MsgDual        == Chars("price of my Wallet")
MsgTxPrice     == Chars("transaction price")
MsgSlot        == Chars("slot")
MsgHello       == Chars("hello")
\* "Tsena", with a capital first letter
MsgTsena       == <<"u0426", "u0435", "u043d", "u0430">>
MsgLong        == Repeat("x", DescriptionLength + LongExtra) \o Chars(" status")
MsgPadded      == <<"a">> \o Repeat(" ", SmallMaxInput) \o Chars("b@")
MsgSymbols     == Chars("@ @")
MsgOnlySymbols == Chars("#$")

Messages ==
    {MsgEmpty, MsgBlank, MsgBalance, MsgDual, MsgTxPrice, MsgSlot, MsgHello,
     MsgTsena, MsgLong, MsgPadded, MsgSymbols, MsgOnlySymbols}

Roles == {"user", "assistant"}

Turn(i) ==
    [role |-> IF i % 2 = 1 THEN "user" ELSE "assistant",
     content |-> Chars("turn ") \o <<AsciiLower[i]>>]

\* history is optional: defined = FALSE is the omitted argument
Histories ==
    {[defined |-> FALSE, turns |-> <<>>]}
    \cup {[defined |-> TRUE, turns |-> [i \in 1..n |-> Turn(i)]] : n \in 0..MaxHist}

\* what handleCommand resolves to
CommandResults ==
    [message : {Chars("5 SOL"), <<"\n">> \o Chars("failed ")}, success : BOOLEAN]

\* error.message of what the command handler or recordTask raises
CommandErrors == {Chars("rpc down")}
RecordErrors == {Chars("registry down")}

\* what generateChat resolves to
Completions == {Chars("ok"), <<" ">> \o Chars("hi") \o Repeat("\n", 4) \o Chars("you") \o <<"\n">>}

\* what generateChat rejects with: error.response.data.error.message,
\* error.response.data.message, error.message (empty = absent)
CompletionErrors ==
    {[apiError |-> <<>>, apiMessage |-> <<>>, message |-> Chars("timeout")],
     [apiError |-> Chars("bad key"), apiMessage |-> <<>>, message |-> Chars("status 401")]}

-----------------------------------------------------------------------------
(* State *)

NoResult == [message |-> <<>>, success |-> FALSE]
NoArgs == [description |-> <<>>, skillName |-> "", success |-> FALSE]
NoCalls == [recognizer |-> 0, executor |-> 0, completion |-> 0, record |-> 0]
NoResponse == [kind |-> "none", text |-> <<>>, limit |-> 0]
NoHistory == [defined |-> FALSE, turns |-> <<>>]

\* the AIProcessor constructor: defaults, overridden by the given config
Constructor(enableSolana, sapProtocol, maxGiven) ==
    [maxInputLength |-> IF maxGiven THEN SmallMaxInput ELSE DefaultMaxInputLength,
     enableSolana |-> enableSolana,
     sapProtocol |-> sapProtocol]

\* a variant of the constructor that always builds the command handler
HasSolanaHandlerAlways == TRUE

\* this.solanaHandler is set only when enableSolana
HasSolanaHandler == config.enableSolana

\* a rate: num / den per cent
Rate(num, den) == [num |-> num, den |-> den]

\* a variant of the registered figures that starts the success rate at 0
InitialProfileUnrated ==
    [reputation |-> 0, tasksCompleted |-> 0, successRate |-> Rate(0, 1), successes |-> 0]

\* the figures initialize registers for the local agent: reputation 0,
\* tasksCompleted 0, successRate 100; successes is the registry's running count
InitialProfile ==
    [reputation |-> 0, tasksCompleted |-> 0, successRate |-> Rate(100, 1), successes |-> 0]

\* a variant of recordTask that does not clamp the reputation
RegistryRecordTaskUnclamped(agent, success) ==
    LET done == agent.tasksCompleted + 1
        good == agent.successes + (IF success THEN 1 ELSE 0)
    IN  [agent EXCEPT
            !.tasksCompleted = done,
            !.successes = good,
            !.successRate = Rate(100 * good, done),
            !.reputation = IF success THEN agent.reputation + 1
                           ELSE agent.reputation - 2]

\* AgentRegistry.recordTask on a known agent
RegistryRecordTask(agent, success) ==
    LET done == agent.tasksCompleted + 1
        good == agent.successes + (IF success THEN 1 ELSE 0)
    IN  [agent EXCEPT
            !.tasksCompleted = done,
            !.successes = good,
            !.successRate = Rate(100 * good, done),
            !.reputation = IF success THEN Min(100, agent.reputation + 1)
                           ELSE Max(0, agent.reputation - 2)]

\* the module state of the serverless entry point at load: appHandler and
\* initPromise are null
NoPromise == 0

ServerIdle ==
    /\ env = [sapEnabled |-> TRUE]
    /\ appHandler = FALSE
    /\ initPromise = NoPromise
    /\ runs = <<>>
    /\ requests = <<>>
    /\ microtasks = <<>>

Init ==
    /\ ServerIdle
    /\ config \in {Constructor(e, s, g) : e \in BOOLEAN, s \in BOOLEAN, g \in BOOLEAN}
    /\ registry = InitialProfile
    /\ pc = "Idle"
    /\ message = <<>>
    /\ history = NoHistory
    /\ result = NoResult
    /\ recState = "none"
    /\ recFate = "none"
    /\ recArgs = NoArgs
    /\ submitted = <<>>
    /\ calls = NoCalls
    /\ response = NoResponse
    /\ agents = <<>>
    /\ heap = <<>>
    /\ profile = 0
    /\ initPending = {}
    /\ returned = <<>>
    /\ inflight = EmptyBag
    /\ log = <<>>
    /\ ops = 0
    /\ now = 0

-----------------------------------------------------------------------------
(* processMessage, one action per synchronous stretch between awaits *)

CommandResult(r) == [kind |-> "CommandResult", text |-> r.message, limit |-> 0]
CommandError(e) == [kind |-> "CommandError", text |-> e, limit |-> 0]
EmptyGuidance == [kind |-> "EmptyGuidance", text |-> <<>>, limit |-> 0]
LengthGuidance == [kind |-> "LengthGuidance", text |-> <<>>, limit |-> config.maxInputLength]
Completion(t) == [kind |-> "Completion", text |-> cleanOutput(t), limit |-> 0]

\* error.response?.data?.error?.message || error.response?.data?.message
\*   || error.message || String(error)
ErrorDetail(e) ==
    IF e.apiError # <<>> THEN e.apiError
    ELSE IF e.apiMessage # <<>> THEN e.apiMessage
    ELSE IF e.message # <<>> THEN e.message
    ELSE Chars("Error")

CompletionError(e) == [kind |-> "CompletionError", text |-> ErrorDetail(e), limit |-> 0]

\* a variant that keeps the first turns instead of the last: slice(0, 10)
HistoryHead(h) ==
    LET turns == IF h.defined THEN h.turns ELSE <<>>
    IN  SubSeq(turns, 1, Min(HistoryWindow, Len(turns)))

\* (history || []).slice(-10)
HistoryTail(h) ==
    LET turns == IF h.defined THEN h.turns ELSE <<>>
    IN  SubSeq(turns, Max(1, Len(turns) - HistoryWindow + 1), Len(turns))

\* messages[]: the mapped history window, then the new user turn
BuildMessages(h, cleanedMessage) ==
    LET window == HistoryTail(h)
    IN  [i \in 1..Len(window) |->
            [role |-> window[i].role, content |-> window[i].content]]
        \o <<[role |-> "user", content |-> cleanedMessage]>>

\* a variant that records the whole message
TaskDescriptionUntruncated(msg) == msg

\* message.substring(0, 80), the description handed to recordTask
TaskDescription(msg) == Substring0(msg, DescriptionLength)

\* a caller invokes processMessage(m, h)
Call(m, h) ==
    /\ UNCHANGED <<regVars, srvVars>>
    /\ pc = "Idle"
    /\ registry.tasksCompleted < MaxTasks
    /\ pc' = "ClassifyInput"
    /\ message' = m
    /\ history' = h
    /\ UNCHANGED <<config, registry, result, recState, recFate, recArgs,
                   submitted, calls, response>>

\* if (this.solanaHandler && this.solanaHandler.isSolanaCommand(message))
Recognize ==
    /\ UNCHANGED <<regVars, srvVars>>
    /\ pc = "ClassifyInput"
    /\ IF HasSolanaHandler
       THEN /\ calls' = [calls EXCEPT !.recognizer = @ + 1]
            /\ \E answer \in {"command", "other", "raise"} :
                 pc' = CASE answer = "command" -> "CommandPath"
                         [] answer = "other" -> "CompletionPath"
                         [] answer = "raise" -> "Threw"
       ELSE /\ calls' = calls
            /\ pc' = "CompletionPath"
    /\ UNCHANGED <<config, registry, message, history, result, recState,
                   recFate, recArgs, submitted, response>>

\* this.solanaHandler.handleCommand(message) is invoked and awaited
InvokeCommand ==
    /\ UNCHANGED <<regVars, srvVars>>
    /\ pc = "CommandPath"
    /\ calls' = [calls EXCEPT !.executor = @ + 1]
    /\ \/ /\ pc' = "AwaitCommand"
          /\ response' = response
       \/ \E e \in CommandErrors :
            /\ pc' = "Responded"
            /\ response' = CommandError(e)
    /\ UNCHANGED <<config, registry, message, history, result, recState,
                   recFate, recArgs, submitted>>

\* handleCommand rejects: the catch of the command branch
CommandRejects ==
    /\ UNCHANGED <<regVars, srvVars>>
    /\ pc = "AwaitCommand"
    /\ \E e \in CommandErrors :
         /\ pc' = "Responded"
         /\ response' = CommandError(e)
    /\ UNCHANGED <<config, registry, message, history, result, recState,
                   recFate, recArgs, submitted, calls>>

\* handleCommand resolves: record the task, or return result.message
CommandResolves ==
    /\ UNCHANGED <<regVars, srvVars>>
    /\ pc = "AwaitCommand"
    /\ \E r \in CommandResults :
         /\ result' = r
         /\ LET skillName == detectSkillName(message)
            IN  IF config.sapProtocol /\ skillName # ""
                THEN /\ calls' = [calls EXCEPT !.record = @ + 1]
                     /\ recArgs' = [description |-> TaskDescription(message),
                                    skillName |-> skillName,
                                    success |-> r.success]
                     /\ \/ /\ recState' = "pending"
                           /\ recFate' \in {"settles", "never"}
                           /\ pc' = "AwaitRecord"
                           /\ response' = response
                        \/ \E e \in RecordErrors :
                             /\ recState' = "threw"
                             /\ recFate' = recFate
                             /\ pc' = "Responded"
                             /\ response' = CommandError(e)
                ELSE /\ pc' = "Responded"
                     /\ response' = CommandResult(r)
                     /\ UNCHANGED <<calls, recArgs, recState, recFate>>
    /\ UNCHANGED <<config, registry, message, history, submitted>>

\* the recordTask promise settles; .catch(() => {}) swallows a rejection
RecordSettles ==
    /\ UNCHANGED <<regVars, srvVars>>
    /\ pc = "AwaitRecord"
    /\ recFate = "settles"
    /\ \E outcome \in {"recorded", "unknownAgent", "rejected"} :
         registry' = IF outcome = "recorded"
                     THEN RegistryRecordTask(registry, recArgs.success)
                     ELSE registry
    /\ recState' = "settled"
    /\ pc' = "Responded"
    /\ response' = CommandResult(result)
    /\ UNCHANGED <<config, message, history, result, recFate, recArgs,
                   submitted, calls>>

\* the fallback branch up to the await of generateChat
Fallback ==
    /\ UNCHANGED <<regVars, srvVars>>
    /\ pc = "CompletionPath"
    /\ LET cleanedMessage == cleanInput(message)
       IN  IF cleanedMessage = <<>>
           THEN /\ pc' = "Responded"
                /\ response' = EmptyGuidance
                /\ UNCHANGED <<submitted, calls>>
           ELSE IF Len(cleanedMessage) > config.maxInputLength
           THEN /\ pc' = "Responded"
                /\ response' = LengthGuidance
                /\ UNCHANGED <<submitted, calls>>
           ELSE /\ submitted' = BuildMessages(history, cleanedMessage)
                /\ calls' = [calls EXCEPT !.completion = @ + 1]
                /\ pc' = "AwaitCompletion"
                /\ response' = response
    /\ UNCHANGED <<config, registry, message, history, result, recState,
                   recFate, recArgs>>

\* a variant that also records the completion as a task
CompletionResolvesRecording ==
    /\ UNCHANGED <<regVars, srvVars>>
    /\ pc = "AwaitCompletion"
    /\ \E t \in Completions :
         /\ pc' = "Responded"
         /\ response' = Completion(t)
    /\ calls' = [calls EXCEPT !.record = @ + 1]
    /\ registry' = RegistryRecordTask(registry, TRUE)
    /\ UNCHANGED <<config, message, history, result, recState,
                   recFate, recArgs, submitted>>

\* generateChat resolves
CompletionResolves ==
    /\ UNCHANGED <<regVars, srvVars>>
    /\ pc = "AwaitCompletion"
    /\ \E t \in Completions :
         /\ pc' = "Responded"
         /\ response' = Completion(t)
    /\ UNCHANGED <<config, registry, message, history, result, recState,
                   recFate, recArgs, submitted, calls>>

\* generateChat raises or rejects: the catch of the fallback branch
CompletionRejects ==
    /\ UNCHANGED <<regVars, srvVars>>
    /\ pc = "AwaitCompletion"
    /\ \E e \in CompletionErrors :
         /\ pc' = "Responded"
         /\ response' = CompletionError(e)
    /\ UNCHANGED <<config, registry, message, history, result, recState,
                   recFate, recArgs, submitted, calls>>

\* the caller has the outcome; the processor is ready for the next call
Finish ==
    /\ UNCHANGED <<regVars, srvVars>>
    /\ pc \in {"Responded", "Threw"}
    /\ pc' = "Idle"
    /\ message' = <<>>
    /\ history' = NoHistory
    /\ result' = NoResult
    /\ recState' = "none"
    /\ recFate' = "none"
    /\ recArgs' = NoArgs
    /\ submitted' = <<>>
    /\ calls' = NoCalls
    /\ response' = NoResponse
    /\ UNCHANGED <<config, registry>>

Next ==
    \/ \E m \in Messages, h \in Histories : Call(m, h)
    \/ Recognize
    \/ InvokeCommand
    \/ CommandRejects
    \/ CommandResolves
    \/ RecordSettles
    \/ Fallback
    \/ CompletionResolves
    \/ CompletionRejects
    \/ Finish

Spec == Init /\ [][Next]_vars

-----------------------------------------------------------------------------
(* The text of a response *)

\* 'Pozhaluysta, otpravte nepustoe soobshchenie.'
EmptyGuidanceText ==
    <<"u041f", "u043e", "u0436", "u0430", "u043b", "u0443", "u0439", "u0441",
      "u0442", "u0430", ",", " ", "u043e", "u0442", "u043f", "u0440",
      "u0430", "u0432", "u044c", "u0442", "u0435", " ", "u043d", "u0435",
      "u043f", "u0443", "u0441", "u0442", "u043e", "u0435", " ", "u0441",
      "u043e", "u043e", "u0431", "u0449", "u0435", "u043d", "u0438", "u0435",
      ".">>

\* 'Soobshchenie slishkom dlinnoe. Maksimum ' before the limit
LengthGuidanceHead ==
    <<"u0421", "u043e", "u043e", "u0431", "u0449", "u0435", "u043d", "u0438",
      "u0435", " ", "u0441", "u043b", "u0438", "u0448", "u043a", "u043e",
      "u043c", " ", "u0434", "u043b", "u0438", "u043d", "u043d", "u043e",
      "u0435", ".", " ", "u041c", "u0430", "u043a", "u0441", "u0438",
      "u043c", "u0443", "u043c", " ">>

\*  ' simvolov.' after the limit
LengthGuidanceTail ==
    <<" ", "u0441", "u0438", "u043c", "u0432", "u043e", "u043b", "u043e",
      "u0432", ".">>

\* 'Oshibka vypolneniya Solana komandy: ' before error.message
CommandErrorPrefix ==
    <<"u041e", "u0448", "u0438", "u0431", "u043a", "u0430", " ", "u0432",
      "u044b", "u043f", "u043e", "u043b", "u043d", "u0435", "u043d", "u0438",
      "u044f", " ", "S", "o", "l", "a", "n", "a", " ", "u043a", "u043e",
      "u043c", "u0430", "u043d", "u0434", "u044b", ":", " ">>

\* 'Error: ' before the detail
CompletionErrorPrefix ==
    <<"E", "r", "r", "o", "r", ":", " ">>


\* String(n) of a non-negative integer
RECURSIVE DecimalDigits(_)
DecimalDigits(n) ==
    IF n < 10 THEN <<Digits[n + 1]>>
    ELSE Append(DecimalDigits(n \div 10), Digits[(n % 10) + 1])

\* the string processMessage resolves to
ResponseText(r) ==
    CASE r.kind = "CommandResult" -> r.text
      [] r.kind = "CommandError" -> CommandErrorPrefix \o r.text
      [] r.kind = "EmptyGuidance" -> EmptyGuidanceText
      [] r.kind = "LengthGuidance" ->
            LengthGuidanceHead \o DecimalDigits(r.limit) \o LengthGuidanceTail
      [] r.kind = "Completion" -> r.text
      [] r.kind = "CompletionError" -> CompletionErrorPrefix \o r.text
      [] OTHER -> <<>>

-----------------------------------------------------------------------------
(* AgentRegistry and AgentProfileManager *)

\* the capabilities initialize declares, all enabled
StarterCapabilities ==
    <<[name |-> "Solana Balance Check", description |-> "Check SOL and SPL token balances",
       version |-> "1.0.0", enabled |-> TRUE],
      [name |-> "Token Price Query", description |-> "Get real-time token prices via Jupiter",
       version |-> "1.0.0", enabled |-> TRUE],
      [name |-> "Transaction Analysis", description |-> "Analyze and format recent transactions",
       version |-> "1.0.0", enabled |-> TRUE],
      [name |-> "Network Status", description |-> "Check Solana network health",
       version |-> "1.0.0", enabled |-> TRUE],
      [name |-> "Natural Language Processing", description |-> "Understand and process user queries",
       version |-> "1.0.0", enabled |-> TRUE],
      [name |-> "Multi-Provider AI", description |-> "Support for Ollama, OpenAI, and local models",
       version |-> "1.0.0", enabled |-> TRUE]>>

\* configs given to initialize: a valid one, one with an empty name, one with
\* an empty version
InitConfigs ==
    {[name |-> Chars("Solana AI Agent"), description |-> "An agent", version |-> "1.0.0"],
     [name |-> <<>>, description |-> "An agent", version |-> "1.0.0"],
     [name |-> Chars("Solana AI Agent"), description |-> "An agent", version |-> ""]}

\* capability objects a caller builds for addCapability: a new name and the
\* name of a starter capability
NewCapabilities ==
    {[name |-> "Swap", description |-> "added", version |-> "0.1.0", enabled |-> TRUE],
     [name |-> "Network Status", description |-> "added", version |-> "0.1.0",
      enabled |-> FALSE]}

\* names given to toggleCapability
ToggleNames == {"Network Status", "Swap", "Staking"}

\* descriptions given to updateDescription
Descriptions == {"A better agent"}

\* pricing given to setPricing
Pricings == {[pricePerTask |-> 1, currency |-> "SOL"]}

\* ids given to recordTask: the first two the registry issues, and one it
\* never issues
RecordIds == {1, 2, MaxAgents + 1}

\* pricing is optional: absent, or one record
NoPricing == <<>>

\* AgentRegistry.registerAgent rejects with ValidationError
Invalid(data) == data.name = <<>> \/ data.version = ""

\* the record AgentRegistry.registerAgent stores for data under a fresh id
RegisteredProfile(id, data, caps, figures) ==
    [id |-> id,
     name |-> data.name,
     description |-> data.description,
     version |-> data.version,
     capabilities |-> caps,
     reputation |-> figures.reputation,
     tasksCompleted |-> figures.tasksCompleted,
     successRate |-> figures.successRate,
     successes |-> figures.successes,
     pricing |-> NoPricing,
     createdAt |-> now,
     lastActive |-> now]

\* the id generator: ids are issued in order
NextId == Len(agents) + 1

\* AgentRegistry.getAgent is defined on the ids it issued
Registered(id) == id \in 1..Len(agents)

\* the capability objects of a profile, in order
CapabilitiesOf(heapNow, p) ==
    [i \in 1..Len(p.capabilities) |-> heapNow[p.id][p.capabilities[i]]]

\* initialize, up to the await of registerAgent: the capability array is
\* built, registerAgent stores the record or rejects
initialize(cfg) ==
    /\ Len(agents) < MaxAgents
    /\ IF Invalid(cfg)
         THEN UNCHANGED regVars
         ELSE LET caps == [i \in 1..Len(StarterCapabilities) |-> i]
              IN  /\ agents' = Append(agents,
                                      RegisteredProfile(NextId, cfg, caps, InitialProfile))
                  /\ heap' = Append(heap, StarterCapabilities)
                  /\ initPending' = initPending \cup {NextId}
                  /\ now' = now + 1
                  /\ UNCHANGED <<profile, returned, inflight, log, ops>>
    /\ UNCHANGED <<procVars, srvVars>>

\* a variant of the resumption that keeps a profile it has already cached
initializeResumeKeeping(id) ==
    /\ id \in initPending
    /\ \A other \in initPending : id <= other
    /\ profile' = IF profile = 0 THEN id ELSE profile
    /\ returned' = Append(returned, id)
    /\ initPending' = initPending \ {id}
    /\ UNCHANGED <<agents, heap, inflight, log, ops, now>>
    /\ UNCHANGED <<procVars, srvVars>>

\* initialize, after the await: this.profile = this.registry.getAgent(agentId),
\* return agentId; registerAgent stores the record within the call, so the
\* awaits of concurrent initialize calls resume in the order of the calls
initializeResume(id) ==
    /\ id \in initPending
    /\ \A other \in initPending : id <= other
    /\ profile' = id
    /\ returned' = Append(returned, id)
    /\ initPending' = initPending \ {id}
    /\ UNCHANGED <<agents, heap, inflight, log, ops, now>>
    /\ UNCHANGED <<procVars, srvVars>>

\* a variant of addCapability that puts the capability first: unshift
addCapabilityFirst(capability) ==
    /\ ops < MaxOps
    /\ ops' = ops + 1
    /\ IF profile = 0
         THEN UNCHANGED <<agents, heap>>
         ELSE /\ heap' = [heap EXCEPT ![profile] = Append(@, capability)]
              /\ agents' = [agents EXCEPT ![profile].capabilities =
                                                <<Len(heap[profile]) + 1>> \o @]
    /\ UNCHANGED <<profile, initPending, returned, inflight, log, now>>
    /\ UNCHANGED <<procVars, srvVars>>

\* addCapability(capability) with an object the caller has just built
addCapability(capability) ==
    /\ ops < MaxOps
    /\ ops' = ops + 1
    /\ IF profile = 0
         THEN UNCHANGED <<agents, heap>>
         ELSE /\ heap' = [heap EXCEPT ![profile] = Append(@, capability)]
              /\ agents' = [agents EXCEPT ![profile].capabilities =
                                                Append(@, Len(heap[profile]) + 1)]
    /\ UNCHANGED <<profile, initPending, returned, inflight, log, now>>
    /\ UNCHANGED <<procVars, srvVars>>

\* addCapability(capability) with an object the caller has passed before: it
\* is already in the profile's sequence, at position i
addCapabilityAgain(i) ==
    /\ ops < MaxOps
    /\ ops' = ops + 1
    /\ profile # 0
    /\ i \in (Len(StarterCapabilities) + 1)..Len(agents[profile].capabilities)
    /\ agents' = [agents EXCEPT ![profile].capabilities = Append(@, @[i])]
    /\ UNCHANGED <<heap, profile, initPending, returned, inflight, log, now>>
    /\ UNCHANGED <<procVars, srvVars>>

\* capabilities.find(c => c.name === capabilityName): the position of the
\* first match, 0 when there is none
FindCapability(caps, capabilityName) ==
    LET hits == {i \in 1..Len(caps) : heap[profile][caps[i]].name = capabilityName}
    IN  IF hits = {} THEN 0 ELSE CHOOSE i \in hits : \A j \in hits : i <= j

toggleCapability(capabilityName, enabled) ==
    /\ ops < MaxOps
    /\ ops' = ops + 1
    /\ IF profile = 0
         THEN UNCHANGED heap
         ELSE LET caps == agents[profile].capabilities
                  found == FindCapability(caps, capabilityName)
              IN  IF found = 0 THEN UNCHANGED heap
                  ELSE heap' = [heap EXCEPT ![profile][caps[found]].enabled = enabled]
    /\ UNCHANGED <<agents, profile, initPending, returned, inflight, log, now>>
    /\ UNCHANGED <<procVars, srvVars>>

\* a variant of updateDescription without the guard: with no cached profile it
\* writes to the record registered last
updateDescriptionUnguarded(description) ==
    /\ ops < MaxOps
    /\ ops' = ops + 1
    /\ LET target == IF profile = 0 THEN Len(agents) ELSE profile
       IN  IF target = 0
           THEN UNCHANGED agents
           ELSE agents' = [agents EXCEPT ![target].description = description]
    /\ UNCHANGED <<heap, profile, initPending, returned, inflight, log, now>>
    /\ UNCHANGED <<procVars, srvVars>>

updateDescription(description) ==
    /\ ops < MaxOps
    /\ ops' = ops + 1
    /\ IF profile = 0
         THEN UNCHANGED agents
         ELSE agents' = [agents EXCEPT ![profile].description = description]
    /\ UNCHANGED <<heap, profile, initPending, returned, inflight, log, now>>
    /\ UNCHANGED <<procVars, srvVars>>

setPricing(pricing) ==
    /\ ops < MaxOps
    /\ ops' = ops + 1
    /\ IF profile = 0
         THEN UNCHANGED agents
         ELSE agents' = [agents EXCEPT ![profile].pricing = <<pricing>>]
    /\ UNCHANGED <<heap, profile, initPending, returned, inflight, log, now>>
    /\ UNCHANGED <<procVars, srvVars>>

\* getEnabledCapabilities(): the enabled capability objects, in order
getEnabledCapabilities ==
    IF profile = 0 THEN <<>>
    ELSE SelectSeq(CapabilitiesOf(heap, agents[profile]), LAMBDA c : c.enabled)

\* what getSummary returns for no profile
NotInitialized == [text |-> "Agent not initialized"]

\* getSummary(): the figures the text shows
getSummary ==
    IF profile = 0 THEN NotInitialized
    ELSE LET p == agents[profile]
             capabilities == getEnabledCapabilities
         IN  [text |-> "Agent Profile",
              name |-> p.name,
              description |-> p.description,
              id |-> p.id,
              version |-> p.version,
              capabilityCount |-> Len(capabilities),
              capabilityLines |-> [i \in 1..Len(capabilities) |->
                                     <<capabilities[i].name, capabilities[i].version>>],
              reputation |-> p.reputation,
              tasksCompleted |-> p.tasksCompleted,
              successRate |-> p.successRate,
              pricing |-> p.pricing,
              createdAt |-> p.createdAt,
              lastActive |-> p.lastActive]

\* name.toLowerCase().replace(/\s+/g, '-')
Slug(name) ==
    LET spaced == CollapseSpaces(toLowerCase(name))
    IN  [i \in 1..Len(spaced) |-> IF spaced[i] = " " THEN "-" ELSE spaced[i]]

\* what exportForOpenClaw returns for no profile
Null == [kind |-> "null"]

exportForOpenClaw ==
    IF profile = 0 THEN Null
    ELSE LET p == agents[profile]
             capabilities == getEnabledCapabilities
         IN  [kind |-> "object",
              name |-> Slug(p.name),
              version |-> p.version,
              description |-> p.description,
              author |-> "Solana Agent Protocol",
              capabilities |-> [i \in 1..Len(capabilities) |-> capabilities[i].name],
              config |-> [agentId |-> p.id, solanaEnabled |-> TRUE,
                          reputation |-> p.reputation]]

\* the recordTask calls in flight for an agent id
InFlight(agentId) ==
    LET pending == {c \in BagToSet(inflight) : c.agentId = agentId}
    IN  BagCardinality([c \in pending |-> inflight[c]])

\* AgentRegistry.recordTask(agentId, ..., success) is called; the call takes
\* effect later
recordTask(agentId, success) ==
    /\ Len(log) + BagCardinality(inflight) < MaxRecords
    /\ inflight' = inflight (+) SetToBag({[agentId |-> agentId, success |-> success]})
    /\ UNCHANGED <<agents, heap, profile, initPending, returned, log, ops, now>>
    /\ UNCHANGED <<procVars, srvVars>>

\* a variant of the write that leaves the success rate as it was
CommitTorn(before, after) == [after EXCEPT !.successRate = before.successRate]

\* recordTask writes the figures of a profile together
Commit(before, after) == after

\* a variant of recordTask on an unknown id that stamps every profile
RecordUnknownStamping(store) ==
    [i \in DOMAIN store |-> [store[i] EXCEPT !.lastActive = now]]

\* recordTask on an unknown id: the store is left as it is
RecordUnknown(store) == store

\* one recordTask call takes effect: nothing for an unknown id, the new
\* figures and lastActive = now for a known one
recordTaskApply(call) ==
    /\ BagIn(call, inflight)
    /\ inflight' = inflight (-) SetToBag({call})
    /\ log' = Append(log, [agentId |-> call.agentId, success |-> call.success,
                           known |-> Registered(call.agentId)])
    /\ IF Registered(call.agentId)
         THEN /\ agents' = [agents EXCEPT ![call.agentId] =
                     [Commit(@, RegistryRecordTask(@, call.success))
                         EXCEPT !.lastActive = now]]
              /\ now' = now + 1
         ELSE /\ agents' = RecordUnknown(agents)
              /\ UNCHANGED now
    /\ UNCHANGED <<heap, profile, initPending, returned, ops>>
    /\ UNCHANGED <<procVars, srvVars>>

\* the processor is idle in the specifications of the registry and the manager
ProcessorIdle ==
    /\ config = Constructor(FALSE, FALSE, FALSE)
    /\ registry = InitialProfile
    /\ pc = "Idle"
    /\ message = <<>>
    /\ history = NoHistory
    /\ result = NoResult
    /\ recState = "none"
    /\ recFate = "none"
    /\ recArgs = NoArgs
    /\ submitted = <<>>
    /\ calls = NoCalls
    /\ response = NoResponse

\* the registry and the profile manager before any call
RegistryIdle ==
    /\ agents = <<>>
    /\ heap = <<>>
    /\ profile = 0
    /\ initPending = {}
    /\ returned = <<>>
    /\ inflight = EmptyBag
    /\ log = <<>>
    /\ ops = 0
    /\ now = 0

RegistryInit ==
    /\ ProcessorIdle
    /\ ServerIdle
    /\ agents = <<>>
    /\ heap = <<>>
    /\ profile = 0
    /\ initPending = {}
    /\ returned = <<>>
    /\ inflight = EmptyBag
    /\ log = <<>>
    /\ ops = 0
    /\ now = 0

\* the profile manager and its mutators and reads
ManagerNext ==
    \/ \E cfg \in InitConfigs : initialize(cfg)
    \/ \E id \in initPending : initializeResume(id)
    \/ \E c \in NewCapabilities : addCapability(c)
    \/ \E i \in 1..(Len(StarterCapabilities) + MaxOps) : addCapabilityAgain(i)
    \/ \E n \in ToggleNames, e \in BOOLEAN : toggleCapability(n, e)
    \/ \E d \in Descriptions : updateDescription(d)
    \/ \E p \in Pricings : setPricing(p)

ManagerSpec == RegistryInit /\ [][ManagerNext]_vars

\* the registry under registrations and task recordings
RegistryNext ==
    \/ \E cfg \in InitConfigs : initialize(cfg)
    \/ \E id \in initPending : initializeResume(id)
    \/ \E a \in RecordIds, s \in BOOLEAN : recordTask(a, s)
    \/ \E call \in BagToSet(inflight) : recordTaskApply(call)

RegistrySpec == RegistryInit /\ [][RegistryNext]_vars

-----------------------------------------------------------------------------
(* The serverless entry point: handler and initApp *)

\* a variant of the test of the cached promise that always starts initApp
NeedsInitAlways == TRUE

\* if (!initPromise)
NeedsInit == initPromise = NoPromise

\* if (!appHandler)
InitFailed == ~appHandler

\* a variant of the failure handler that keeps the cached promise
AfterCatchKeeping(k) == k

\* the failure handler of run k: initPromise = null
AfterCatch(k) == NoPromise

\* config.sap?.enabled && config.solana?.enabled
SapEnabled == env.sapEnabled

\* how far a call of initApp gets before it returns its promise: with the
\* protocol enabled it awaits sapProtocol.initialize, without it runs to its
\* end; a constructor or the call of initialize may raise
FirstStretch == IF SapEnabled THEN {"awaiting", "failed"} ELSE {"done", "failed"}

\* the promise job that follows the end of an initApp run
JobAfter(state, k) ==
    CASE state = "done" -> <<[kind |-> "settle", id |-> k]>>
      [] state = "failed" -> <<[kind |-> "catch", id |-> k]>>
      [] OTHER -> <<>>

\* an invocation suspended at await initPromise
Awaiting(k) == [on |-> k, pc |-> "awaiting", delegated |-> 0, sent500 |-> 0]

\* the invocations suspended on the promise of run k, resumed in order
ResumeJobs(k) ==
    LET idx == [i \in 1..Len(requests) |-> i]
        waiting == SelectSeq(idx, LAMBDA i : requests[i].on = k /\ requests[i].pc = "awaiting")
    IN  [i \in 1..Len(waiting) |-> [kind |-> "resume", id |-> waiting[i]]]

\* handler(req, res) up to await initPromise; a request is taken up when no
\* promise job is left
handler ==
    /\ microtasks = <<>>
    /\ Len(requests) < MaxRequests
    /\ IF NeedsInit
         THEN \E state \in FirstStretch :
                LET k == Len(runs) + 1
                IN  /\ runs' = Append(runs, [state |-> state, wrapped |-> "pending"])
                    /\ appHandler' = (appHandler \/ state = "done")
                    /\ initPromise' = k
                    /\ microtasks' = JobAfter(state, k)
                    /\ requests' = Append(requests, Awaiting(k))
         ELSE /\ requests' = Append(requests, Awaiting(initPromise))
              /\ microtasks' = IF runs[initPromise].wrapped = "resolved"
                               THEN <<[kind |-> "resume", id |-> Len(requests) + 1]>>
                               ELSE <<>>
              /\ UNCHANGED <<runs, appHandler, initPromise>>
    /\ UNCHANGED env
    /\ UNCHANGED <<procVars, regVars>>

\* sapProtocol.initialize settles and initApp runs to its end: appHandler is
\* set, or the run fails
initAppResume(k) ==
    /\ microtasks = <<>>
    /\ k \in 1..Len(runs)
    /\ runs[k].state = "awaiting"
    /\ \E state \in {"done", "failed"} :
         /\ runs' = [runs EXCEPT ![k].state = state]
         /\ appHandler' = (appHandler \/ state = "done")
         /\ microtasks' = JobAfter(state, k)
    /\ UNCHANGED <<env, initPromise, requests>>
    /\ UNCHANGED <<procVars, regVars>>

\* the promise of a successful run passes through .catch
initFulfilled ==
    /\ microtasks # <<>>
    /\ Head(microtasks).kind = "settle"
    /\ LET k == Head(microtasks).id
       IN  /\ runs' = [runs EXCEPT ![k].wrapped = "resolved"]
           /\ microtasks' = Tail(microtasks) \o ResumeJobs(k)
    /\ UNCHANGED <<env, appHandler, initPromise, requests>>
    /\ UNCHANGED <<procVars, regVars>>

\* the failure handler given to .catch runs
initCatch ==
    /\ microtasks # <<>>
    /\ Head(microtasks).kind = "catch"
    /\ LET k == Head(microtasks).id
       IN  /\ initPromise' = AfterCatch(k)
           /\ runs' = [runs EXCEPT ![k].wrapped = "resolved"]
           /\ microtasks' = Tail(microtasks) \o ResumeJobs(k)
    /\ UNCHANGED <<env, appHandler, requests>>
    /\ UNCHANGED <<procVars, regVars>>

\* handler after await initPromise: the 500 response, or appHandler(req, res)
handlerResume ==
    /\ microtasks # <<>>
    /\ Head(microtasks).kind = "resume"
    /\ LET r == Head(microtasks).id
       IN  requests' = [requests EXCEPT ![r] =
               IF InitFailed
               THEN [@ EXCEPT !.pc = "done", !.sent500 = @ + 1]
               ELSE [@ EXCEPT !.pc = "done", !.delegated = @ + 1]]
    /\ microtasks' = Tail(microtasks)
    /\ UNCHANGED <<env, appHandler, initPromise, runs>>
    /\ UNCHANGED <<procVars, regVars>>

HandlerInit ==
    /\ ProcessorIdle
    /\ RegistryIdle
    /\ env \in {[sapEnabled |-> b] : b \in BOOLEAN}
    /\ appHandler = FALSE
    /\ initPromise = NoPromise
    /\ runs = <<>>
    /\ requests = <<>>
    /\ microtasks = <<>>

HandlerNext ==
    \/ handler
    \/ \E k \in 1..MaxRequests : initAppResume(k)
    \/ initFulfilled
    \/ initCatch
    \/ handlerResume

HandlerSpec == HandlerInit /\ [][HandlerNext]_vars

-----------------------------------------------------------------------------
(* Vocabulary of the properties *)

\* the states of the per-request state machine of the design
Phase(p) ==
    CASE p = "Idle" -> "Idle"
      [] p = "ClassifyInput" -> "ClassifyInput"
      [] p \in {"CommandPath", "AwaitCommand", "AwaitRecord"} -> "CommandPath"
      [] p \in {"CompletionPath", "AwaitCompletion"} -> "CompletionPath"
      [] p = "Responded" -> "Responded"
      [] p = "Threw" -> "Threw"

\* the call is over: the promise processMessage returned has settled
Finished == pc \in {"Responded", "Threw"}

\* handleCommand has resolved to a result
ExecutorReturned == result \in CommandResults

\* the ordered rule list of the classifier
Rules ==
    <<[tag |-> "Balance Checker", keywords |-> BalanceKeywords],
      [tag |-> "Transaction Analyzer", keywords |-> TransactionKeywords],
      [tag |-> "Price Monitor", keywords |-> PriceKeywords],
      [tag |-> "Network Status", keywords |-> NetworkKeywords]>>

\* rule i has a keyword that is a substring of the lower-cased text
RuleHits(i, lower) == \E k \in Rules[i].keywords : Includes(lower, k)

RuleMatches(i, msg) == RuleHits(i, toLowerCase(msg))

\* the tag of the earliest matching rule, the empty tag when none matches
FirstMatch(msg) ==
    LET lower == toLowerCase(msg)
        hits == {i \in 1..Len(Rules) : RuleHits(i, lower)}
    IN  IF hits = {} THEN ""
        ELSE Rules[CHOOSE i \in hits : \A j \in hits : i <= j].tag

-----------------------------------------------------------------------------
(* C1: process(message, history) never throws: whatever the recognizer, the
   executor, the completion client and the recording do, a finished call has
   resolved to a text response.  The code evaluates isSolanaCommand outside
   every try block, so this is violated. *)
C1_NeverThrows ==
    Finished => (pc = "Responded" /\ response # NoResponse)

(* C2: on the command path a failure of task recording is swallowed: once the
   executor has returned, the response is exactly the executor's message.
   Violated when recordTask raises before it returns a promise: the raise
   lands in the catch of the command branch. *)
C2_RecordingFailureSwallowed ==
    (pc = "Responded" /\ ExecutorReturned) => response = CommandResult(result)

(* C3: for a message longer than the configured maximum, process returns the
   length guidance stating the limit, invokes no collaborator and records no
   task.  Violated: the recognizer runs before any length check, and the
   check is on the cleaned text. *)
C3_LongMessageRejected ==
    (pc # "Idle" /\ Len(message) > config.maxInputLength) =>
        /\ calls = NoCalls
        /\ Finished => response = LengthGuidance

(* C4: for an empty or whitespace-only message, process returns the guidance
   response, recordTask is never invoked and the completion client is never
   invoked.  Violated: the recognizer sees the message first. *)
C4_BlankMessageGuidance ==
    (pc # "Idle" /\ \A i \in 1..Len(message) : IsSpace(message[i])) =>
        /\ calls.record = 0
        /\ calls.completion = 0
        /\ Finished => response = EmptyGuidance

(* C5, as stated: after the executor returns, recordTask is invoked exactly
   once if and only if the classifier yields a non-empty tag.  Violated when
   no registry protocol is configured. *)
C5_RecordIffTag ==
    ExecutorReturned =>
        calls.record = (IF detectSkillName(message) # "" THEN 1 ELSE 0)

(* C5, amended: after the executor returns, recordTask is invoked exactly once
   if and only if a registry protocol is configured and the classifier yields
   a non-empty tag for the original message; its arguments are the first
   min(80, length) characters of the original message, that tag and the
   success flag of the executor.  Otherwise recordTask is not invoked. *)
C5_RecordIffTagAndProtocol ==
    /\ ~ExecutorReturned => calls.record = 0
    /\ ExecutorReturned =>
         /\ calls.record =
              (IF config.sapProtocol /\ detectSkillName(message) # "" THEN 1 ELSE 0)
         /\ calls.record = 1 =>
              /\ Len(recArgs.description) = Min(DescriptionLength, Len(message))
              /\ \A i \in 1..Len(recArgs.description) :
                   recArgs.description[i] = message[i]
              /\ recArgs.skillName = detectSkillName(message)
              /\ recArgs.success = result.success

\* a message longer than 80 characters has been recorded, truncated
C5_Witness ==
    /\ ExecutorReturned
    /\ calls.record = 1
    /\ Len(message) > DescriptionLength
    /\ Len(recArgs.description) = DescriptionLength

(* C6: the classifier is first-match-wins over the order Balance Checker,
   Transaction Analyzer, Price Monitor, Network Status: the tag is that of the
   earliest rule with a keyword in the lower-cased input, empty when no rule
   matches; an input with a balance keyword and a price keyword yields
   "Balance Checker". *)
C6_FirstMatchWins ==
    pc # "Idle" =>
        LET tag == detectSkillName(message)
        IN  /\ tag = FirstMatch(message)
            /\ (RuleMatches(1, message) /\ RuleMatches(3, message)) =>
                  tag = "Balance Checker"
            /\ calls.record = 1 => recArgs.skillName = tag

\* a message with a price keyword ahead of a balance keyword was recorded
C6_Witness ==
    /\ message = MsgDual
    /\ RuleMatches(1, message) /\ RuleMatches(3, message)
    /\ calls.record = 1
    /\ recArgs.skillName = "Balance Checker"

(* C7: task recording is fire-and-forget: the response is not delayed by the
   recording, so whenever a recording is in flight the call has already
   responded.  Violated: the code awaits the recordTask promise, and a
   recording that never settles leaves the call without a response. *)
C7_FireAndForget ==
    recState = "pending" => pc = "Responded"

(* C8: every request follows Idle -> ClassifyInput -> {CommandPath |
   CompletionPath} -> Responded, and Responded is the only way a request
   ends.  Violated: a raising recognizer ends the request outside Responded. *)
C8_Lifecycle ==
    [][\/ Phase(pc') = Phase(pc)
       \/ <<Phase(pc), Phase(pc')>> \in
            {<<"Idle", "ClassifyInput">>,
             <<"ClassifyInput", "CommandPath">>,
             <<"ClassifyInput", "CompletionPath">>,
             <<"CommandPath", "Responded">>,
             <<"CompletionPath", "Responded">>,
             <<"Responded", "Idle">>}]_vars

(* C9: on the fallback path there is no registry interaction: for a message
   not taken as a command, recordTask is never invoked and the agent's profile
   is unchanged by the call, whether the completion succeeds or fails. *)
C9_FallbackLeavesRegistry ==
    [][/\ pc \in {"ClassifyInput", "CompletionPath", "AwaitCompletion"} =>
            registry' = registry
       /\ pc \in {"CompletionPath", "AwaitCompletion"} =>
            /\ calls'.record = 0
            /\ recState' = "none"
            /\ recArgs' = NoArgs]_vars

\* a completion answered a message that carries a skill keyword, with a
\* registry configured that already holds a recorded task
C9_Witness ==
    /\ pc = "Responded"
    /\ response.kind \in {"Completion", "CompletionError"}
    /\ HasSolanaHandler /\ config.sapProtocol
    /\ detectSkillName(message) # ""
    /\ registry.tasksCompleted > 0
    /\ calls.record = 0

(* C10: the turns submitted to the completion client are the last
   min(10, |history|) turns of the history, in order and with their roles,
   followed by one user turn holding the cleaned message: at most 11 turns,
   the last one the current message. *)
C10_SubmittedTurns ==
    calls.completion = 1 =>
        LET turns == IF history.defined THEN history.turns ELSE <<>>
            n == Len(turns)
            k == Min(HistoryWindow, n)
        IN  /\ Len(submitted) = k + 1
            /\ Len(submitted) <= HistoryWindow + 1
            /\ \A i \in 1..k :
                 /\ submitted[i].role = turns[n - k + i].role
                 /\ submitted[i].content = turns[n - k + i].content
            /\ submitted[k + 1] = [role |-> "user", content |-> cleanInput(message)]

\* a history longer than the window was submitted
C10_Witness ==
    /\ calls.completion = 1
    /\ history.defined
    /\ Len(history.turns) > HistoryWindow
    /\ Len(submitted) = HistoryWindow + 1

-----------------------------------------------------------------------------
\* no leading or trailing whitespace, no run of three or more newlines
Hygienic(t) ==
    /\ t # <<>> => (~IsSpace(t[1]) /\ ~IsSpace(t[Len(t)]))
    /\ ~Includes(t, <<"\n", "\n", "\n">>)

StartsWith(t, prefix) ==
    Len(t) >= Len(prefix) /\ SubSeq(t, 1, Len(prefix)) = prefix

(* C11: every response returned by process, on every path, has had output
   hygiene applied: no leading or trailing whitespace and no run of three or
   more newlines.  Violated: only the completion result goes through
   cleanOutput; result.message and the error texts are returned as they
   are. *)
C11_OutputHygiene ==
    pc = "Responded" => Hygienic(ResponseText(response))

(* C12: when a collaborator raises, the failure becomes a user-visible text
   that identifies the failing path; the completion client is invoked at most
   once per call, and when the executor raises no task is recorded.
   Violated: a raise of the recognizer becomes no text at all. *)
C12_FailureBecomesText ==
    /\ calls.completion <= 1
    /\ (Finished /\ (pc = "Threw" \/ response.kind \in {"CommandError", "CompletionError"})) =>
         /\ pc = "Responded"
         /\ response.kind = "CommandError" =>
              /\ StartsWith(ResponseText(response), CommandErrorPrefix)
              /\ ~StartsWith(ResponseText(response), CompletionErrorPrefix)
              /\ calls.completion = 0
              /\ ~ExecutorReturned => (calls.record = 0 /\ recState = "none")
         /\ response.kind = "CompletionError" =>
              /\ StartsWith(ResponseText(response), CompletionErrorPrefix)
              /\ ~StartsWith(ResponseText(response), CommandErrorPrefix)
              /\ calls.executor = 0

-----------------------------------------------------------------------------
(* The registry's figures *)

\* the outcomes applied to an agent, in the order they were applied
OutcomesOf(agentId) ==
    LET mine == SelectSeq(log, LAMBDA e : e.known /\ e.agentId = agentId)
    IN  [i \in 1..Len(mine) |-> mine[i].success]

\* how many of the outcomes are successes (TRUE) or failures (FALSE)
Count(outcomes, success) == Cardinality({i \in 1..Len(outcomes) : outcomes[i] = success})

\* rate is 100 * good / total per cent, 100 per cent when total is 0
RateEquals(rate, good, total) ==
    IF total = 0 THEN rate.num = 100 * rate.den
    ELSE rate.num * total = 100 * good * rate.den

\* rate r is below rate q
RateBelow(r, q) == r.num * q.den < q.num * r.den

(* C13: after any sequence of recordings on an agent with n successes and m
   failures, tasksCompleted = n + m, successRate = 100 * n / (n + m) (100 when
   there were none), and the reputation is within [0, 100]; the agent was
   registered by initialize with reputation 0. *)
C13_RecordedFigures ==
    \A a \in 1..Len(agents) :
        LET n == Count(OutcomesOf(a), TRUE)
            m == Count(OutcomesOf(a), FALSE)
        IN  /\ agents[a].tasksCompleted = n + m
            /\ RateEquals(agents[a].successRate, n, n + m)
            /\ agents[a].reputation \in 0..100

\* an agent has successes and failures recorded, the clamp at 0 has acted
\* (two successes and one failure leave 2 only when the failure came first)
C13_Witness ==
    /\ Len(agents) >= 1
    /\ Count(OutcomesOf(1), TRUE) = 2
    /\ Count(OutcomesOf(1), FALSE) = 1
    /\ agents[1].reputation = 2

(* C14: recording a task for an id the registry does not hold changes
   nothing: the number of profiles, every profile (figures, lastActive,
   capabilities) and the capability objects stay as they were. *)
C14_UnknownAgentNoOp ==
    [][(Len(log') > Len(log) /\ ~log'[Len(log')].known) =>
         (agents' = agents /\ heap' = heap /\ profile' = profile)]_vars

\* a recording for an unknown id was applied while a profile with recorded
\* tasks existed
C14_Witness ==
    /\ Len(log) >= 2
    /\ ~log[Len(log)].known
    /\ log[Len(log) - 1].known
    /\ Len(agents) >= 1
    /\ agents[1].tasksCompleted >= 1

\* the figures of a profile that recordTask writes
Figures(p) ==
    [reputation |-> p.reputation, tasksCompleted |-> p.tasksCompleted,
     successRate |-> p.successRate, successes |-> p.successes]

\* the figures after the outcomes are recorded one after the other
RECURSIVE Replay(_, _)
Replay(figures, outcomes) ==
    IF outcomes = <<>> THEN figures
    ELSE Replay(RegistryRecordTask(figures, Head(outcomes)), Tail(outcomes))

(* C15: recordings made concurrently for one agent take effect one at a
   time: in every state a read can see, tasksCompleted counts the recordings
   applied so far, and the figures are those of recording the applied outcomes
   one after the other; tasksCompleted is never ahead of successRate. *)
C15_Serialized ==
    \A a \in 1..Len(agents) :
        /\ agents[a].tasksCompleted = Len(OutcomesOf(a))
        /\ Figures(agents[a]) = Replay(InitialProfile, OutcomesOf(a))
        /\ agents[a].tasksCompleted > 0 =>
              agents[a].successRate = Rate(100 * agents[a].successes, agents[a].tasksCompleted)

\* two recordings were applied to an agent while a third call for it was still
\* in flight
C15_Witness ==
    /\ Len(agents) >= 1
    /\ agents[1].tasksCompleted = 2
    /\ InFlight(1) = 1

\* the elements of a sequence
Elements(s) == {s[i] : i \in 1..Len(s)}

(* C16: every registration stores its profile under an id no earlier
   registration got, with tasksCompleted 0 and successRate 100; the id
   initialize returns was not returned before; a stored id never changes. *)
C16_FreshIds ==
    [][/\ Len(agents') >= Len(agents)
       /\ \A i \in 1..Len(agents) : agents'[i].id = agents[i].id
       /\ Len(agents') > Len(agents) =>
            LET new == agents'[Len(agents')]
            IN  /\ new.id \notin {agents[i].id : i \in 1..Len(agents)}
                /\ agents'[new.id] = new
                /\ new.tasksCompleted = 0
                /\ RateEquals(new.successRate, 1, 1)
       /\ Len(returned') > Len(returned) =>
            /\ returned'[Len(returned')] \notin Elements(returned)
            /\ agents'[returned'[Len(returned')]].id = returned'[Len(returned')]]_vars

\* two registrations have completed and tasks were recorded on the first
C16_Witness ==
    /\ Len(returned) = 2
    /\ Len(agents) = 2
    /\ agents[1].tasksCompleted >= 1
    /\ agents[2].tasksCompleted = 0

-----------------------------------------------------------------------------
(* The profile manager's capabilities *)

\* the capability names of a profile, in order
NamesOf(p) == [i \in 1..Len(p.capabilities) |-> heap[p.id][p.capabilities[i]].name]

\* no value occurs twice in the sequence
Distinct(s) == \A i, j \in 1..Len(s) : s[i] = s[j] => i = j

(* C17: after any sequence of initialize, addCapability and toggleCapability
   no profile holds two capabilities of the same name.  Violated:
   addCapability appends without looking at the names already held. *)
C17_UniqueNames ==
    \A a \in 1..Len(agents) : Distinct(NamesOf(agents[a]))

(* C18: when the executor reports success: false for a message classified
   Balance Checker, the recording adds 1 to tasksCompleted, lowers successRate and
   lowers the reputation by the failure penalty (not below 0), and the
   response is the executor's message whatever the recording does.  Violated
   when recordTask raises before it returns a promise (the response is the
   command error text), and by a failure recorded at a success rate of 0. *)
C18_FailedTaskRecorded ==
    [][/\ (registry' # registry /\ recArgs.skillName = "Balance Checker" /\ ~recArgs.success) =>
            /\ registry'.tasksCompleted = registry.tasksCompleted + 1
            /\ RateBelow(registry'.successRate, registry.successRate)
            /\ registry'.reputation = Max(0, registry.reputation - 2)
       /\ (/\ pc # "Responded" /\ pc' = "Responded"
           /\ result' \in CommandResults /\ ~result'.success
           /\ detectSkillName(message) = "Balance Checker") =>
            response' = CommandResult(result')]_vars

\* what the claim says toggleCapability(capabilityName, enabled) does
ToggleEffect(capabilityName, enabled) ==
    IF profile = 0 \/ capabilityName \notin Elements(NamesOf(agents[profile]))
    THEN agents' = agents /\ heap' = heap /\ profile' = profile
    ELSE LET before == CapabilitiesOf(heap, agents[profile])
             after == CapabilitiesOf(heap', agents'[profile])
             first == CHOOSE i \in 1..Len(before) :
                         /\ before[i].name = capabilityName
                         /\ \A j \in 1..(i - 1) : before[j].name # capabilityName
         IN  /\ profile' = profile
             /\ Len(after) = Len(before)
             /\ after[first] = [before[first] EXCEPT !.enabled = enabled]
             /\ \A j \in 1..Len(before) : j # first => after[j] = before[j]
             /\ \A a \in 1..Len(agents) :
                   a # profile => /\ agents'[a] = agents[a]
                                  /\ heap'[a] = heap[a]
             /\ [agents'[profile] EXCEPT !.capabilities = <<>>] =
                   [agents[profile] EXCEPT !.capabilities = <<>>]

\* the enabled capabilities of the cached profile, in the order of insertion
EnabledInOrder ==
    IF profile = 0 THEN <<>>
    ELSE LET all == CapabilitiesOf(heap, agents[profile])
             F[i \in 0..Len(all)] ==
                 IF i = 0 THEN <<>>
                 ELSE IF all[i].enabled THEN Append(F[i - 1], all[i]) ELSE F[i - 1]
         IN  F[Len(all)]

(* C19: toggleCapability sets the flag of the first capability of the given
   name and changes nothing else (a later capability of the same name keeps
   its flag), and does nothing when no capability has the name;
   getEnabledCapabilities returns the enabled capabilities in insertion
   order and getSummary shows their number.  Violated when the same object
   was added twice: both entries are the one object the toggle writes. *)
C19_ToggleFirstMatch ==
    [][/\ \A n \in ToggleNames, e \in BOOLEAN :
            toggleCapability(n, e) => ToggleEffect(n, e)
       /\ getEnabledCapabilities = EnabledInOrder
       /\ profile # 0 => getSummary.capabilityCount = Len(EnabledInOrder)]_vars

(* C20: while initialize has not completed (no profile is cached), every
   mutator (addCapability, toggleCapability, setPricing, updateDescription)
   leaves the manager and the registry unchanged, getEnabledCapabilities
   returns the empty sequence, and getSummary and exportForOpenClaw return
   their not-initialized values. *)
C20_UninitializedNoOps ==
    [][/\ (profile = 0 /\ ops' # ops) =>
            (agents' = agents /\ heap' = heap /\ profile' = profile)
       /\ profile = 0 =>
            /\ getEnabledCapabilities = <<>>
            /\ getSummary = NotInitialized
            /\ exportForOpenClaw = Null
       /\ profile' = 0 =>
            /\ getEnabledCapabilities' = <<>>
            /\ getSummary' = NotInitialized
            /\ exportForOpenClaw' = Null]_vars

\* mutators were called while a registration was stored and initialize had
\* not yet cached the profile
C20_Witness ==
    /\ profile = 0
    /\ Len(agents) = 1
    /\ initPending = {1}
    /\ ops >= 2

(* C21: two initialize calls store two records under distinct ids; once both
   have returned, the manager refers to the record registered last, and
   every later mutator (addCapability, toggleCapability, setPricing,
   updateDescription) changes that record only: the first record, its
   capability sequence and its flags stay as they were. *)
C21_TwoIndependentRecords ==
    [][/\ \A a, b \in 1..Len(agents) : agents[a].id = agents[b].id => a = b
       /\ (Len(returned') >= 2 /\ initPending' = {}) => profile' = Len(agents')
       /\ (Len(returned) >= 2 /\ ops' # ops) =>
            \A a \in 1..Len(agents) :
                a # profile => /\ agents'[a] = agents[a]
                               /\ heap'[a] = heap[a]]_vars

\* after the second initialize, a capability was added and the description
\* changed; the first record has neither
C21_Witness ==
    /\ Len(returned) = 2
    /\ profile = 2
    /\ Len(agents[2].capabilities) > Len(agents[1].capabilities)
    /\ agents[2].description # agents[1].description
    /\ CapabilitiesOf(heap, agents[1]) = StarterCapabilities

\* the capability at a position, without its flag
Unflagged(c) == [name |-> c.name, description |-> c.description, version |-> c.version]

(* C22: capabilities are never removed or reordered: in every step the
   capability sequence of a profile stays as it is or grows by one entry at
   the end, and every entry keeps its position, name, description and
   version; only the enabled flag of an entry changes. *)
C22_AppendOnly ==
    [][\A a \in 1..Len(agents) :
         LET before == CapabilitiesOf(heap, agents[a])
             after == CapabilitiesOf(heap', agents'[a])
         IN  /\ Len(after) \in {Len(before), Len(before) + 1}
             /\ SubSeq(agents'[a].capabilities, 1, Len(before)) = agents[a].capabilities
             /\ \A i \in 1..Len(before) : Unflagged(after[i]) = Unflagged(before[i])]_vars

\* a profile has grown by two capabilities and a starter capability was
\* disabled
C22_Witness ==
    /\ profile # 0
    /\ Len(agents[profile].capabilities) = Len(StarterCapabilities) + 2
    /\ \E i \in 1..Len(StarterCapabilities) :
          ~CapabilitiesOf(heap, agents[profile])[i].enabled

-----------------------------------------------------------------------------
(* The processor without a command handler, and the submitted user turn *)

(* C25: a processor constructed without enableSolana has no command handler:
   for every message the call takes the completion path (guidance, completion
   or completion error), neither the recognizer nor the executor is called,
   and recordTask is never invoked, whether or not a registry protocol is
   configured. *)
C25_NoHandlerNoRecording ==
    ~config.enableSolana =>
        /\ Phase(pc) \in {"Idle", "ClassifyInput", "CompletionPath", "Responded"}
        /\ calls.recognizer = 0
        /\ calls.executor = 0
        /\ calls.record = 0
        /\ recState = "none"
        /\ registry = InitialProfile
        /\ pc = "Responded" =>
              response.kind \in {"EmptyGuidance", "LengthGuidance",
                                 "Completion", "CompletionError"}

\* with a registry protocol and no command handler, a completion answered a
\* message that carries a skill keyword
C25_Witness ==
    /\ ~config.enableSolana
    /\ config.sapProtocol
    /\ pc = "Responded"
    /\ response.kind = "Completion"
    /\ detectSkillName(message) # ""

(* C26: the user turn submitted to the completion client is never empty,
   never only whitespace, and has no leading or trailing whitespace.
   Violated: cleanInput trims and collapses before it strips the disallowed
   characters, so the whitespace between or beside stripped characters
   stays. *)
C26_UserTurnNotBlank ==
    calls.completion = 1 =>
        LET content == submitted[Len(submitted)].content
        IN  /\ content # <<>>
            /\ \E i \in 1..Len(content) : ~IsSpace(content[i])
            /\ ~IsSpace(content[1])
            /\ ~IsSpace(content[Len(content)])

-----------------------------------------------------------------------------
(* The serverless handler *)

\* the initApp runs that have started and not ended
RunsInFlight(all) == {k \in 1..Len(all) : all[k].state = "awaiting"}

(* C23: under any interleaving of handler invocations at most one initApp run
   is in flight; a run starts only while no run is in flight and appHandler
   is not set; a request that arrives while a run is in flight starts no run
   and waits on the promise of that run. *)
C23_SingleInit ==
    [][/\ Cardinality(RunsInFlight(runs)) <= 1
       /\ Cardinality(RunsInFlight(runs')) <= 1
       /\ Len(runs') > Len(runs) => (~appHandler /\ RunsInFlight(runs) = {})
       /\ (Len(requests') > Len(requests) /\ RunsInFlight(runs) # {}) =>
            /\ Len(runs') = Len(runs)
            /\ requests'[Len(requests')].on \in RunsInFlight(runs)]_vars

\* after a failed run, two requests wait on the second run, which is in
\* flight
C23_Witness ==
    /\ Len(runs) = 2
    /\ runs[1].state = "failed"
    /\ runs[2].state = "awaiting"
    /\ Cardinality({r \in 1..Len(requests) :
                       requests[r].on = 2 /\ requests[r].pc = "awaiting"}) = 2

\* a promise job runs in this step
JobRuns(kind) ==
    /\ microtasks # <<>>
    /\ Head(microtasks).kind = kind
    /\ microtasks' # microtasks

\* the outcomes of the invocations are one of the two, never both
OneOutcome(all) ==
    \A r \in 1..Len(all) :
        /\ all[r].delegated + all[r].sent500 = (IF all[r].pc = "done" THEN 1 ELSE 0)
        /\ all[r].delegated = 1 =>
              /\ all[r].on \in 1..Len(runs)
              /\ \E k \in 1..Len(runs) : runs[k].state = "done"

(* C24: every handler invocation ends in one of two outcomes, never both: it
   is delegated to appHandler, only after an initApp run has succeeded, or the
   500 response is sent; no invocation is left waiting once the runs and the
   promise jobs are through; the failure handler of a run clears the cached
   promise, which is the promise of that run and of no later one, and the
   next request starts a new run. *)
C24_HandlerOutcomes ==
    [][/\ OneOutcome(requests)
       /\ \A r \in 1..Len(requests) :
            /\ requests'[r].delegated >= requests[r].delegated
            /\ requests'[r].sent500 >= requests[r].sent500
            /\ requests'[r].delegated > requests[r].delegated => appHandler
       /\ (microtasks' = <<>> /\ RunsInFlight(runs') = {}) =>
            \A r \in 1..Len(requests') : requests'[r].pc = "done"
       /\ JobRuns("catch") =>
            /\ initPromise = Head(microtasks).id
            /\ initPromise' = NoPromise
       /\ (Len(requests') > Len(requests) /\ Len(runs) >= 1
             /\ runs[Len(runs)].state = "failed") =>
            /\ Len(runs') = Len(runs) + 1
            /\ requests'[Len(requests')].on = Len(runs')]_vars

\* a request got the 500 response of a failed run, a later request started a
\* new run and was delegated
C24_Witness ==
    /\ Len(runs) = 2
    /\ runs[1].state = "failed"
    /\ runs[2].state = "done"
    /\ \E r, q \in 1..Len(requests) :
          /\ r < q
          /\ requests[r].sent500 = 1 /\ requests[r].on = 1
          /\ requests[q].delegated = 1 /\ requests[q].on = 2

====
